---- MODULE Spec2Model ----
(***************************************************************************)
(* A model of the IR extraction and lowering pipeline of the two tools     *)
(*   tools/decompile_analysis.py  (LLVMIRParser, CDecompiler)              *)
(*   tools/ir_to_c.py             (IRToCConverter)                         *)
(* Texts are sequences of one-character strings; the regular expressions   *)
(* of the source are written item by item and run by a backtracking        *)
(* matcher with Python's priorities (greedy, lazy, leftmost alternative).  *)
(***************************************************************************)
EXTENDS Integers, Sequences, FiniteSets, TLC

VARIABLES
    content,              \* LLVMIRParser.content / IRToCConverter.ir
    functions,            \* LLVMIRParser.functions: name -> FunctionInfo
    globals,              \* LLVMIRParser.globals
    strings,              \* LLVMIRParser.strings
    obfuscation_patterns, \* LLVMIRParser.obfuscation_patterns (keys set so far)
    metrics,              \* the last ObfuscationMetrics returned, or NoMetrics
    parses,               \* how many times parse() has run on the parser object
    conv_functions,       \* IRToCConverter.functions: name -> dict
    instr,                \* an instruction line handed to _convert_instruction
    lowered,              \* its lowering by each tool
    instructions,         \* FunctionInfo.instructions handed to decompile_function
    body,                 \* a function body handed to _decompile_body
    emitted,              \* the lines the two body lowerings emitted
    start, end, depth,    \* the brace-depth scan of _extract_functions
    pc                    \* position of the running operation

vars == <<content, functions, globals, strings, obfuscation_patterns, metrics,
          parses, conv_functions, instr, lowered, instructions, body, emitted,
          start, end, depth, pc>>

----------------------------------------------------------------------------
(* Characters and character classes of Python's re.                        *)

LowerCase == <<"a","b","c","d","e","f","g","h","i","j","k","l","m",
               "n","o","p","q","r","s","t","u","v","w","x","y","z">>
UpperCase == <<"A","B","C","D","E","F","G","H","I","J","K","L","M",
               "N","O","P","Q","R","S","T","U","V","W","X","Y","Z">>
Range(s) == {s[i] : i \in DOMAIN s}
Digit == {"0","1","2","3","4","5","6","7","8","9"}
Word == Range(LowerCase) \cup Range(UpperCase) \cup Digit \cup {"_"}
WS == {" ", "\t", "\n", "\r", "\f"}

\* str.lower() of one character (re.IGNORECASE compares case-folded)
ToLower(c) ==
    IF c \in Range(UpperCase)
    THEN LowerCase[CHOOSE i \in DOMAIN UpperCase : UpperCase[i] = c]
    ELSE c
Fold(c, ic) == IF ic THEN ToLower(c) ELSE c

\* items of a pattern
Lit(w)   == [t |-> "lit", w |-> w]
Star(s)  == [t |-> "star", s |-> s, neg |-> FALSE]
NotStar(s) == [t |-> "star", s |-> s, neg |-> TRUE]
Plus(s)  == [t |-> "plus", s |-> s, neg |-> FALSE]
NotPlus(s) == [t |-> "plus", s |-> s, neg |-> TRUE]
NotLazyPlus(s) == [t |-> "lplus", s |-> s, neg |-> TRUE]
Opt(p)   == [t |-> "opt", p |-> p]
Alt(ps)  == [t |-> "alt", ps |-> ps]
Bol      == [t |-> "bol"]
Eol      == [t |-> "eol"]
Mark(n)  == [t |-> "mark", n |-> n]

NoMatch == [ok |-> FALSE, end |-> 0, m |-> <<>>]

\* how many consecutive characters from pos are in the class
RunLen(cls, neg, text, pos) ==
    LET stop == CHOOSE q \in pos..(Len(text) + 1) :
                    /\ q = Len(text) + 1 \/ ((text[q] \in cls) = neg)
                    /\ \A r \in pos..(q - 1) : (text[r] \in cls) # neg
    IN stop - pos

LitAt(w, text, pos, ic) ==
    /\ pos + Len(w) - 1 <= Len(text)
    /\ \A i \in 1..Len(w) : Fold(text[pos + i - 1], ic) = Fold(w[i], ic)

RECURSIVE Match(_, _, _, _)
RECURSIVE Greedy(_, _, _, _, _, _)
RECURSIVE Lazy(_, _, _, _, _, _)
RECURSIVE AltTry(_, _, _, _, _)

\* re's match of the pattern `items` at position pos: the first success in
\* backtracking order, with the positions of its marks (group boundaries)
Match(items, text, pos, ic) ==
    IF Len(items) = 0 THEN [ok |-> TRUE, end |-> pos, m |-> <<>>]
    ELSE LET it == Head(items)
             rest == Tail(items)
         IN CASE it.t = "lit" ->
                    IF LitAt(it.w, text, pos, ic)
                    THEN Match(rest, text, pos + Len(it.w), ic) ELSE NoMatch
              [] it.t = "star" ->
                    Greedy(rest, text, pos, RunLen(it.s, it.neg, text, pos), 0, ic)
              [] it.t = "plus" ->
                    LET n == RunLen(it.s, it.neg, text, pos)
                    IN IF n = 0 THEN NoMatch ELSE Greedy(rest, text, pos, n, 1, ic)
              [] it.t = "lplus" ->
                    LET n == RunLen(it.s, it.neg, text, pos)
                    IN IF n = 0 THEN NoMatch ELSE Lazy(rest, text, pos, 1, n, ic)
              [] it.t = "opt" ->
                    LET r == Match(it.p \o rest, text, pos, ic)
                    IN IF r.ok THEN r ELSE Match(rest, text, pos, ic)
              [] it.t = "alt" -> AltTry(it.ps, rest, text, pos, ic)
              [] it.t = "bol" ->
                    IF pos = 1 \/ text[pos - 1] = "\n"
                    THEN Match(rest, text, pos, ic) ELSE NoMatch
              [] it.t = "eol" ->
                    IF pos = Len(text) + 1 \/ (pos = Len(text) /\ text[pos] = "\n")
                    THEN Match(rest, text, pos, ic) ELSE NoMatch
              [] it.t = "mark" ->
                    LET r == Match(rest, text, pos, ic)
                    IN IF r.ok THEN [r EXCEPT !.m = (it.n :> pos) @@ r.m] ELSE NoMatch

\* a greedy repetition took k characters; give back one at a time down to min
Greedy(rest, text, pos, k, min, ic) ==
    LET r == Match(rest, text, pos + k, ic)
    IN IF r.ok THEN r
       ELSE IF k = min THEN NoMatch
       ELSE Greedy(rest, text, pos, k - 1, min, ic)

\* a lazy repetition took k characters; take one more at a time up to max
Lazy(rest, text, pos, k, max, ic) ==
    LET r == Match(rest, text, pos + k, ic)
    IN IF r.ok THEN r
       ELSE IF k = max THEN NoMatch
       ELSE Lazy(rest, text, pos, k + 1, max, ic)

AltTry(ps, rest, text, pos, ic) ==
    IF Len(ps) = 0 THEN NoMatch
    ELSE LET r == Match(Head(ps) \o rest, text, pos, ic)
         IN IF r.ok THEN r ELSE AltTry(Tail(ps), rest, text, pos, ic)

\* the least element of a non-empty set of positions
Least(ps) == CHOOSE p \in ps : \A q \in ps : p <= q

RECURSIVE NonOverlapping(_, _, _)
\* the matches a left-to-right scan from pos keeps: the leftmost one, then the
\* leftmost one that starts at or after its end, ...
NonOverlapping(at, hits, pos) ==
    LET later == {p \in hits : p >= pos}
    IN IF later = {} THEN <<>>
       ELSE LET p == Least(later)
                r == at[p]
            IN <<[start |-> p, end |-> r.end, m |-> r.m]>>
               \o NonOverlapping(at, hits, IF r.end > p THEN r.end ELSE p + 1)

\* re.finditer / re.findall: the non-overlapping matches, scanning left to right
FindAll(items, text, pos, ic) ==
    LET at == [p \in 1..Len(text) |-> Match(items, text, p, ic)]
        hits == {p \in pos..Len(text) : at[p].ok}
    IN NonOverlapping(at, hits, pos)

\* re.search: the leftmost match, or NoMatch
Search(items, text, pos, ic) ==
    LET at == [p \in 1..Len(text) |-> Match(items, text, p, ic)]
        hits == {p \in pos..Len(text) : at[p].ok}
    IN IF hits = {} THEN NoMatch
       ELSE LET p == Least(hits)
            IN [ok |-> TRUE, start |-> p, end |-> at[p].end, m |-> at[p].m]

\* text[a:b] of Python with 0-based a, b given as 1-based [from, to)
Slice(text, from, to) == SubSeq(text, from, to - 1)

\* `w in text`
Contains(text, w) == \E p \in 1..Len(text) : LitAt(w, text, p, FALSE)
\* text.startswith(w)
StartsWith(text, w) == LitAt(w, text, 1, FALSE)

\* str.strip()
Strip(text) ==
    LET lead == RunLen(WS, FALSE, text, 1)
    IN IF lead = Len(text) THEN <<>>
       ELSE LET last == CHOOSE j \in 1..Len(text) :
                            /\ text[j] \notin WS
                            /\ \A k \in (j + 1)..Len(text) : text[k] \in WS
            IN SubSeq(text, lead + 1, last)

----------------------------------------------------------------------------
(* Literals of the source, as character sequences.                         *)

\* keywords and name prefixes of the IR that the two tools look for
Kw ==
    [ define       |-> <<"d","e","f","i","n","e">>,
      dso_local    |-> <<"d","s","o","_","l","o","c","a","l">>,
      internal     |-> <<"i","n","t","e","r","n","a","l">>,
      private      |-> <<"p","r","i","v","a","t","e">>,
      unnamed_addr |-> <<"u","n","n","a","m","e","d","_","a","d","d","r">>,
      global       |-> <<"g","l","o","b","a","l">>,
      constant     |-> <<"c","o","n","s","t","a","n","t">>,
      llvm_dot     |-> <<"l","l","v","m",".">>,
      uu           |-> <<"_","_">>,
      call         |-> <<"c","a","l","l">>,
      ret          |-> <<"r","e","t">>,
      void         |-> <<"v","o","i","d">>,
      undef        |-> <<"u","n","d","e","f">>,
      add          |-> <<"a","d","d">>,
      sub          |-> <<"s","u","b">>,
      mul          |-> <<"m","u","l">>,
      udiv         |-> <<"u","d","i","v">>,
      sdiv         |-> <<"s","d","i","v">>,
      icmp_eq      |-> <<"i","c","m","p"," ","e","q">>,
      icmp_ne      |-> <<"i","c","m","p"," ","n","e">>,
      icmp_ult     |-> <<"i","c","m","p"," ","u","l","t">>,
      icmp_ugt     |-> <<"i","c","m","p"," ","u","g","t">>,
      br           |-> <<"b","r">>,
      load         |-> <<"l","o","a","d">>,
      store        |-> <<"s","t","o","r","e">>,
      alloca       |-> <<"a","l","l","o","c","a">>,
      ptr          |-> <<"p","t","r">> ]

\* the words of _detect_obfuscation_patterns
Marker ==
    [ obf_key     |-> <<"@","_","_","o","b","f","_","k","e","y">>,
      opaque      |-> <<"o","p","a","q","u","e">>,
      obfuscated  |-> <<"o","b","f","u","s","c","a","t","e","d">>,
      DEADBEEF    |-> <<"0","x","D","E","A","D","B","E","E","F">>,
      CAFEBABE    |-> <<"0","x","C","A","F","E","B","A","B","E">>,
      fake        |-> <<"f","a","k","e">>,
      dummy       |-> <<"d","u","m","m","y">>,
      loop        |-> <<"l","o","o","p">>,
      obf_decrypt |-> <<"@","_","_","o","b","f","_","d","e","c","r","y","p","t">>,
      vm          |-> <<"@","_","_","v","m","_">>,
      bytecode    |-> <<"b","y","t","e","c","o","d","e">>,
      switch      |-> <<"s","w","i","t","c","h">>,
      dispatch    |-> <<"d","i","s","p","a","t","c","h">>,
      flatten     |-> <<"f","l","a","t","t","e","n">> ]

----------------------------------------------------------------------------
(* LLVMIRParser (tools/decompile_analysis.py)                              *)

\* r'define\s+(?:dso_local\s+)?(?:internal\s+)?([^@]+?)\s+@(\w+)\s*\(([^)]*)\)\s*\{'
func_pattern ==
    << Lit(Kw.define), Plus(WS),
       Opt(<<Lit(Kw.dso_local), Plus(WS)>>),
       Opt(<<Lit(Kw.internal), Plus(WS)>>),
       Mark("s1"), NotLazyPlus({"@"}), Mark("e1"),
       Plus(WS), Lit(<<"@">>),
       Mark("s2"), Plus(Word), Mark("e2"),
       Star(WS), Lit(<<"(">>),
       Mark("s3"), NotStar({")"}), Mark("e3"),
       Lit(<<")">>), Star(WS), Lit(<<"{">>) >>

\* match.group(k)
Group(text, r, k) ==
    CASE k = 1 -> Slice(text, r.m["s1"], r.m["e1"])
      [] k = 2 -> Slice(text, r.m["s2"], r.m["e2"])
      [] k = 3 -> Slice(text, r.m["s3"], r.m["e3"])

\* text[i] of Python (0-based)
At(text, i) == text[i + 1]

\* a variant of the depth update that does not count opening braces
ScanDepth_NoNesting(text, e, d) ==
    IF At(text, e) = "}" THEN d - 1 ELSE d

\* one iteration of the body of `while end_pos < len(content) and brace_count > 0`
ScanDepth(text, e, d) ==
    IF At(text, e) = "{" THEN d + 1
    ELSE IF At(text, e) = "}" THEN d - 1
    ELSE d

\* a variant of the loop condition that ignores the depth
ScanContinues_PastZero(text, e, d) == e < Len(text)

\* a variant of the loop condition that goes on at depth zero
ScanContinues_AtZero(text, e, d) == e < Len(text) /\ d >= 0

\* end_pos < len(content) and brace_count > 0
ScanContinues(text, e, d) == e < Len(text) /\ d > 0

RECURSIVE ScanEnd(_, _, _)
\* end_pos when the loop exits, from (end_pos, brace_count) = (e, d)
ScanEnd(text, e, d) ==
    IF ScanContinues(text, e, d)
    THEN ScanEnd(text, e + 1, ScanDepth(text, e, d))
    ELSE e

\* content[start_pos:end_pos-1]; the brace scan starts at match.end()
FuncBody(text, start_pos) ==
    LET end_pos == ScanEnd(text, start_pos, 1)
    IN SubSeq(text, start_pos + 1, end_pos - 1)

\* r'^\s*\d+:' with re.MULTILINE
label_pattern == <<Bol, Star(WS), Plus(Digit), Lit(<<":">>)>>
\* r'^\s*[^;]+' with re.MULTILINE
instr_pattern == <<Bol, Star(WS), NotPlus({";"})>>

\* len(re.findall(r'^\s*\d+:', func_body, re.MULTILINE))
CountBasicBlocks(func_body) == Len(FindAll(label_pattern, func_body, 1, FALSE))

RECURSIVE KeepInstructions(_, _)
\* [i.strip() for i in instructions if i.strip() and not i.strip().startswith(';')]
KeepInstructions(text, ms) ==
    IF Len(ms) = 0 THEN <<>>
    ELSE LET i == Strip(Slice(text, Head(ms).start, Head(ms).end))
         IN (IF Len(i) > 0 /\ ~StartsWith(i, <<";">>) THEN <<i>> ELSE <<>>)
            \o KeepInstructions(text, Tail(ms))

\* re.findall(r'^\s*[^;]+', func_body, re.MULTILINE), then the filter
ExtractInstructions(func_body) ==
    KeepInstructions(func_body, FindAll(instr_pattern, func_body, 1, FALSE))

RECURSIVE Split(_, _)
\* str.split(sep) for a one-character separator
Split(text, sep) ==
    IF \A i \in 1..Len(text) : text[i] # sep THEN <<text>>
    ELSE LET p == CHOOSE i \in 1..Len(text) :
                      text[i] = sep /\ \A j \in 1..(i - 1) : text[j] # sep
         IN <<SubSeq(text, 1, p - 1)>> \o Split(SubSeq(text, p + 1, Len(text)), sep)

\* r'%\w+'
param_name_pattern == <<Lit(<<"%">>), Plus(Word)>>

RECURSIVE ParamList(_)
ParamList(ps) ==
    IF Len(ps) = 0 THEN <<>>
    ELSE LET param == Strip(Head(ps))
             match == Search(param_name_pattern, param, 1, FALSE)
         IN (IF Len(param) = 0 THEN <<>>
             ELSE IF match.ok THEN <<Slice(param, match.start, match.end)>>
             ELSE <<param>>)
            \o ParamList(Tail(ps))

\* LLVMIRParser._parse_params
Parser_parse_params(params_str) ==
    IF Len(params_str) = 0 THEN <<>> ELSE ParamList(Split(params_str, ","))

\* the FunctionInfo built from one match of func_pattern
FunctionInfoOf(text, match) ==
    LET func_body == FuncBody(text, match.end - 1)
        basic_blocks == CountBasicBlocks(func_body)
        instrs == ExtractInstructions(func_body)
    IN [ name |-> Group(text, match, 2),
         params |-> Parser_parse_params(Strip(Group(text, match, 3))),
         return_type |-> Strip(Group(text, match, 1)),
         instructions |-> instrs,
         basic_blocks |-> basic_blocks,
         complexity |-> Len(instrs) + basic_blocks * 2 ]

RECURSIVE StoreFunctions_FirstWins(_, _, _)
\* a variant that keeps the entry a name already has
StoreFunctions_FirstWins(text, ms, fs) ==
    IF Len(ms) = 0 THEN fs
    ELSE LET info == FunctionInfoOf(text, Head(ms))
         IN StoreFunctions_FirstWins(text, Tail(ms), fs @@ (info.name :> info))

RECURSIVE StoreFunctions(_, _, _)
\* the loop `for match in re.finditer(func_pattern, self.content)`:
\* self.functions[func_name] = FunctionInfo(...)
StoreFunctions(text, ms, fs) ==
    IF Len(ms) = 0 THEN fs
    ELSE LET info == FunctionInfoOf(text, Head(ms))
         IN StoreFunctions(text, Tail(ms), (info.name :> info) @@ fs)

\* LLVMIRParser._extract_functions: the new value of self.functions
Parser_extract_functions(text, fs) ==
    StoreFunctions(text, FindAll(func_pattern, text, 1, FALSE), fs)

\* r'@(\w+)\s*=\s*(?:internal\s+)?(?:private\s+)?(?:unnamed_addr\s+)?(?:global|constant)'
global_pattern ==
    << Lit(<<"@">>), Mark("s1"), Plus(Word), Mark("e1"),
       Star(WS), Lit(<<"=">>), Star(WS),
       Opt(<<Lit(Kw.internal), Plus(WS)>>),
       Opt(<<Lit(Kw.private), Plus(WS)>>),
       Opt(<<Lit(Kw.unnamed_addr), Plus(WS)>>),
       Alt(<< <<Lit(Kw.global)>>, <<Lit(Kw.constant)>> >>) >>

\* the list of group(1) of the matches (re.findall with one group)
Groups1(text, ms) == [i \in 1..Len(ms) |-> Slice(text, ms[i].m["s1"], ms[i].m["e1"])]

\* LLVMIRParser._extract_globals: the new value of self.globals
Parser_extract_globals(text) == Groups1(text, FindAll(global_pattern, text, 1, FALSE))

\* r'c"([^"]*)"'
string_pattern ==
    << Lit(<<"c", "\"">>), Mark("s1"), NotStar({"\""}), Mark("e1"), Lit(<<"\"">>) >>

OctDigit == {"0","1","2","3","4","5","6","7"}
OctVal(c) == CHOOSE n \in 0..7 : ToString(n) = c
\* the character with code n; newline and tab are the characters the texts use
Chr(n) == IF n = 10 THEN "\n" ELSE IF n = 9 THEN "\t" ELSE "chr" \o ToString(n)

RECURSIVE OctNum(_, _, _)
\* the value of the k octal digits of s from position p
OctNum(s, p, k) == IF k = 0 THEN 0 ELSE OctNum(s, p, k - 1) * 8 + OctVal(s[p + k - 1])

RECURSIVE UnicodeEscape(_, _)
\* codecs.decode(s, 'unicode_escape') from position p, for the escapes \\, \n, \t
\* and the octal escapes; <<"error">> when the text ends in a lone backslash
UnicodeEscape(s, p) ==
    IF p > Len(s) THEN <<>>
    ELSE IF s[p] # "\\" THEN
        LET r == UnicodeEscape(s, p + 1)
        IN IF r = <<"error">> THEN r ELSE <<s[p]>> \o r
    ELSE IF p = Len(s) THEN <<"error">>
    ELSE LET c == s[p + 1]
             k == IF c \in OctDigit
                  THEN LET n == RunLen(OctDigit, FALSE, s, p + 1)
                       IN IF n > 3 THEN 3 ELSE n
                  ELSE 1
             r == UnicodeEscape(s, p + 1 + k)
             x == IF c \in OctDigit THEN <<Chr(OctNum(s, p + 1, k))>>
                  ELSE IF c = "n" THEN <<"\n">>
                  ELSE IF c = "t" THEN <<"\t">>
                  ELSE IF c = "\\" THEN <<"\\">>
                  ELSE <<"\\", c>>
         IN IF r = <<"error">> THEN r ELSE x \o r

\* LLVMIRParser._decode_string: the raw text when decoding raises
Parser_decode_string(s) ==
    LET d == UnicodeEscape(s, 1) IN IF d = <<"error">> THEN s ELSE d

RECURSIVE DecodeNonEmpty(_)
\* [self._decode_string(m) for m in matches if m]
DecodeNonEmpty(matches) ==
    IF Len(matches) = 0 THEN <<>>
    ELSE (IF Len(Head(matches)) > 0 THEN <<Parser_decode_string(Head(matches))>> ELSE <<>>)
         \o DecodeNonEmpty(Tail(matches))

\* LLVMIRParser._extract_strings: the new value of self.strings
Parser_extract_strings(text) ==
    DecodeNonEmpty(Groups1(text, FindAll(string_pattern, text, 1, FALSE)))

\* the six marker kinds: key of obfuscation_patterns, signature, re.IGNORECASE
MarkerKinds ==
    << [key |-> "string_encryption", ic |-> FALSE,
        pattern |-> <<Lit(Marker.obf_key)>>],
       [key |-> "opaque_predicates", ic |-> TRUE,
        pattern |-> <<Alt(<< <<Lit(Marker.opaque)>>, <<Lit(Marker.obfuscated)>> >>)>>],
       [key |-> "bogus_code", ic |-> FALSE,
        pattern |-> <<Alt(<< <<Lit(Marker.DEADBEEF)>>, <<Lit(Marker.CAFEBABE)>> >>)>>],
       [key |-> "fake_loops", ic |-> TRUE,
        pattern |-> <<Alt(<< <<Lit(Marker.fake)>>,
                             <<Lit(Marker.dummy), NotStar({"\n"}), Lit(Marker.loop)>> >>)>>],
       [key |-> "virtualization", ic |-> TRUE,
        pattern |-> <<Alt(<< <<Lit(Marker.obf_decrypt)>>, <<Lit(Marker.vm)>>,
                             <<Lit(Marker.bytecode)>> >>)>>],
       [key |-> "control_flow", ic |-> TRUE,
        pattern |-> <<Alt(<< <<Lit(Marker.switch), NotStar({"\n"}), Lit(Marker.dispatch)>>,
                             <<Lit(Marker.flatten)>> >>)>>] >>

\* dict.get(key, 0)
Get(pats, key) == IF key \in DOMAIN pats THEN pats[key] ELSE 0

\* the count added to the count already stored, instead of replacing it
DetectOne_Accumulate(text, pats, kind) ==
    IF Search(kind.pattern, text, 1, kind.ic).ok
    THEN (kind.key :> (Get(pats, kind.key) + Len(FindAll(kind.pattern, text, 1, kind.ic))))
         @@ pats
    ELSE pats

\* the marker recorded as present, its occurrences not counted
DetectOne_Flag(text, pats, kind) ==
    IF Search(kind.pattern, text, 1, kind.ic).ok
    THEN (kind.key :> 1) @@ pats
    ELSE pats

\* if re.search(sig, content): patterns[key] = len(re.findall(sig, content))
DetectOne(text, pats, kind) ==
    IF Search(kind.pattern, text, 1, kind.ic).ok
    THEN (kind.key :> Len(FindAll(kind.pattern, text, 1, kind.ic))) @@ pats
    ELSE pats

RECURSIVE DetectFrom(_, _, _)
DetectFrom(text, pats, k) ==
    IF k > Len(MarkerKinds) THEN pats
    ELSE DetectFrom(text, DetectOne(text, pats, MarkerKinds[k]), k + 1)

\* LLVMIRParser._detect_obfuscation_patterns: the new value of
\* self.obfuscation_patterns
Parser_detect_obfuscation_patterns(text, pats) == DetectFrom(text, pats, 1)

RECURSIVE SumInstructions(_, _)
\* sum(len(f.instructions) for f in self.functions.values())
SumInstructions(fs, names) ==
    IF names = {} THEN 0
    ELSE LET n == CHOOSE x \in names : TRUE
         IN Len(fs[n].instructions) + SumInstructions(fs, names \ {n})

\* the complexity above which get_metrics counts a function as obfuscated
ObfuscatedThreshold == 10

\* the threshold taken inclusively
IsObfuscated_AtLeast(f) == f.complexity >= ObfuscatedThreshold

\* f.complexity > 10
IsObfuscated(f) == f.complexity > ObfuscatedThreshold

\* only the instructions of the functions counted as obfuscated
ObfuscatedInstructions_Attributed(fs, total_instructions) ==
    SumInstructions(fs, {n \in DOMAIN fs : IsObfuscated(fs[n])})

\* obfuscated_instructions=total_instructions
ObfuscatedInstructions(fs, total_instructions) == total_instructions

\* LLVMIRParser.get_metrics
Parser_get_metrics(fs, pats) ==
    LET total_instructions == SumInstructions(fs, DOMAIN fs)
    IN [ total_functions |-> Cardinality(DOMAIN fs),
         obfuscated_functions |-> Cardinality({n \in DOMAIN fs : IsObfuscated(fs[n])}),
         string_encryptions |-> Get(pats, "string_encryption"),
         opaque_predicates |-> Get(pats, "opaque_predicates"),
         bogus_code_blocks |-> Get(pats, "bogus_code"),
         fake_loops |-> Get(pats, "fake_loops"),
         virtualized_functions |-> Get(pats, "virtualization"),
         control_flow_obfuscations |-> Get(pats, "control_flow"),
         total_instructions |-> total_instructions,
         obfuscated_instructions |-> ObfuscatedInstructions(fs, total_instructions) ]

----------------------------------------------------------------------------
(* IRToCConverter._extract_functions (tools/ir_to_c.py)                    *)

\* func_name.startswith('llvm.') or func_name.startswith('__')
IsInternalName(func_name) ==
    StartsWith(func_name, Kw.llvm_dot) \/ StartsWith(func_name, Kw.uu)

RECURSIVE ConvStore(_, _, _)
\* the loop `for match in re.finditer(pattern, self.ir)`
ConvStore(text, ms, fs) ==
    IF Len(ms) = 0 THEN fs
    ELSE LET match == Head(ms)
             func_name == Group(text, match, 2)
             d == [ return_type |-> Strip(Group(text, match, 1)),
                    params |-> Strip(Group(text, match, 3)),
                    body |-> FuncBody(text, match.end - 1),
                    name |-> func_name ]
         IN ConvStore(text, Tail(ms),
                      IF IsInternalName(func_name) THEN fs ELSE (func_name :> d) @@ fs)

\* IRToCConverter._extract_functions: the new value of self.functions
Conv_extract_functions(text, fs) ==
    ConvStore(text, FindAll(func_pattern, text, 1, FALSE), fs)

----------------------------------------------------------------------------
(* Instruction lowering: CDecompiler._convert_instruction                  *)
(* (tools/decompile_analysis.py) and IRToCConverter._convert_instruction   *)
(* (tools/ir_to_c.py).                                                     *)

\* the fixed texts of the emitted C
Out ==
    [ return             |-> <<"r","e","t","u","r","n">>,
      ellipsis_call      |-> <<"(",".",".",".",")",";">>,
      branch_instruction |-> <<"/","/"," ","b","r","a","n","c","h"," ","i","n","s","t","r","u","c","t","i","o","n">>,
      branch             |-> <<"/","/"," ","b","r","a","n","c","h">>,
      memory_operation   |-> <<"/","/"," ","m","e","m","o","r","y"," ","o","p","e","r","a","t","i","o","n">>,
      local_variable     |-> <<"/","/"," ","l","o","c","a","l"," ","v","a","r","i","a","b","l","e">>,
      var                |-> <<"v","a","r">>,
      global_word        |-> <<"g","l","o","b","a","l">>,
      dots               |-> <<".",".",".">>,
      comment            |-> <<"/","/"," ">>,
      more_open          |-> <<"/","/"," ",".",".","."," ">>,
      more_close         |-> <<" ","m","o","r","e"," ","i","n","s","t","r","u","c","t","i","o","n","s"," ",".",".",".">>,
      basic_block        |-> <<"/","/"," ","B","a","s","i","c"," ","b","l","o","c","k"," ">>,
      int                |-> <<"i","n","t">> ]

\* the value None
None == <<"None">>

\* r'%\d+\s*=\s*'
assign_pattern == <<Lit(<<"%">>), Plus(Digit), Star(WS), Lit(<<"=">>), Star(WS)>>
\* r'call\s+[^@]*@(\w+)'
call_pattern ==
    <<Lit(Kw.call), Plus(WS), NotStar({"@"}), Lit(<<"@">>),
      Mark("s1"), Plus(Word), Mark("e1")>>
\* r'ret\s+(.+)'
ret_pattern == <<Lit(Kw.ret), Plus(WS), Mark("s1"), NotPlus({"\n"}), Mark("e1")>>
\* r'(add|sub|mul)\s+(.+?),\s*(.+)'
arith_pattern ==
    <<Mark("s1"), Alt(<< <<Lit(Kw.add)>>, <<Lit(Kw.sub)>>, <<Lit(Kw.mul)>> >>), Mark("e1"),
      Plus(WS), Mark("s2"), NotLazyPlus({"\n"}), Mark("e2"),
      Lit(<<",">>), Star(WS), Mark("s3"), NotPlus({"\n"}), Mark("e3")>>
\* f'{op}\\s+(.+?),\\s*(.+)' and f'{re.escape(cmp)}\\s+(.+?),\\s*(.+)'
binary_pattern(op) ==
    <<Lit(op), Plus(WS), Mark("s1"), NotLazyPlus({"\n"}), Mark("e1"),
      Lit(<<",">>), Star(WS), Mark("s2"), NotPlus({"\n"}), Mark("e2")>>
\* r'\(([^)]*)\)'
args_pattern == <<Lit(<<"(">>), Mark("s1"), NotStar({")"}), Mark("e1"), Lit(<<")">>)>>
\* r'^\d+$'
integer_pattern == <<Plus(Digit), Eol>>

RECURSIVE RemoveSpans(_, _, _)
\* the text from position pos on without the matched spans
RemoveSpans(text, ms, pos) ==
    IF Len(ms) = 0 THEN SubSeq(text, pos, Len(text))
    ELSE SubSeq(text, pos, Head(ms).start - 1) \o RemoveSpans(text, Tail(ms), Head(ms).end)

\* re.sub(r'%\d+\s*=\s*', '', instr)
StripAssign(i) == RemoveSpans(i, FindAll(assign_pattern, i, 1, FALSE), 1)

\* the call rule of CDecompiler (lines 237-244); <<"next">> when it falls through
ReportCallRule(i) ==
    IF ~Contains(i, Kw.call) THEN <<"next">>
    ELSE LET match == Search(call_pattern, i, 1, FALSE)
         IN IF ~match.ok THEN <<"next">>
            ELSE LET func_name == Group(i, match, 1)
                 IN IF StartsWith(func_name, Kw.llvm_dot) THEN None
                    ELSE func_name \o Out.ellipsis_call

\* the return rule of CDecompiler (lines 246-252)
ReportRetRule(i) ==
    IF ~Contains(i, Kw.ret) THEN <<"next">>
    ELSE LET match == Search(ret_pattern, i, 1, FALSE)
         IN IF ~match.ok THEN <<"next">>
            ELSE LET val == Strip(Group(i, match, 1))
                 IN IF val = Kw.void \/ Len(val) = 0 THEN Out.return \o <<";">>
                    ELSE Out.return \o <<" ">> \o val \o <<";">>

\* {'add': '+', 'sub': '-', 'mul': '*'}[match.group(1)]
ArithSymbol(op) ==
    IF op = Kw.add THEN "+" ELSE IF op = Kw.sub THEN "-" ELSE "*"

\* the arithmetic rule of CDecompiler (lines 254-258)
ReportArithRule(i) ==
    IF ~(Contains(i, Kw.add) \/ Contains(i, Kw.sub) \/ Contains(i, Kw.mul)) THEN <<"next">>
    ELSE LET match == Search(arith_pattern, i, 1, FALSE)
         IN IF ~match.ok THEN <<"next">>
            ELSE Out.comment \o Group(i, match, 2) \o <<" ", ArithSymbol(Group(i, match, 1)), " ">>
                 \o Group(i, match, 3)

\* the branch and memory rules of CDecompiler (lines 260-266)
ReportTailRules(i) ==
    IF Contains(i, Kw.br) THEN Out.branch_instruction
    ELSE IF Contains(i, Kw.load) \/ Contains(i, Kw.store) THEN Out.memory_operation
    ELSE None

RECURSIVE FirstResult(_)
\* the result of the first rule that does not fall through
FirstResult(rs) ==
    IF Len(rs) = 1 \/ Head(rs) # <<"next">> THEN Head(rs) ELSE FirstResult(Tail(rs))

\* the order in which CDecompiler._convert_instruction tries its rules
ReportRules(i) ==
    <<ReportCallRule(i), ReportRetRule(i), ReportArithRule(i), ReportTailRules(i)>>

\* CDecompiler._convert_instruction
Report_convert_instruction(raw) == FirstResult(ReportRules(StripAssign(raw)))

\* the length values are cut to, and the arguments a call is rendered with
MaxValueLen == 20
MaxArgs == 5

\* IRToCConverter._simplify_value
Conv_simplify_value(v) ==
    LET val == Strip(v)
    IN IF Match(integer_pattern, val, 1, FALSE).ok THEN val
       ELSE IF StartsWith(val, <<"%">>) THEN (IF Len(val) > 1 THEN Tail(val) ELSE Out.var)
       ELSE IF StartsWith(val, <<"@">>) THEN (IF Len(val) > 1 THEN Tail(val) ELSE Out.global_word)
       ELSE SubSeq(val, 1, IF Len(val) < MaxValueLen THEN Len(val) ELSE MaxValueLen)

RECURSIVE Join(_, _)
\* sep.join(parts)
Join(parts, sep) ==
    IF Len(parts) = 0 THEN <<>>
    ELSE IF Len(parts) = 1 THEN parts[1]
    ELSE parts[1] \o sep \o Join(Tail(parts), sep)

\* IRToCConverter._simplify_args
Conv_simplify_args(args) ==
    IF Len(Strip(args)) = 0 THEN <<>>
    ELSE LET args_list == Split(args, ",")
             n == IF Len(args_list) < MaxArgs THEN Len(args_list) ELSE MaxArgs
             simplified == [k \in 1..n |-> Conv_simplify_value(Strip(args_list[k]))]
         IN Join(IF Len(args_list) > MaxArgs THEN Append(simplified, Out.dots) ELSE simplified,
                 <<",", " ">>)

\* the return rule of IRToCConverter (lines 171-178)
ConvRetRule(i) ==
    IF ~Contains(i, Kw.ret) THEN <<"next">>
    ELSE LET match == Search(ret_pattern, i, 1, FALSE)
         IN IF ~match.ok THEN <<"next">>
            ELSE LET val == Strip(Group(i, match, 1))
                 IN IF Contains(val, Kw.void) \/ Len(val) = 0 \/ val = Kw.undef
                    THEN Out.return \o <<";">>
                    ELSE Out.return \o <<" ">> \o Conv_simplify_value(val) \o <<";">>

\* the call rule of IRToCConverter (lines 180-192)
ConvCallRule(i) ==
    IF ~Contains(i, Kw.call) THEN <<"next">>
    ELSE LET match == Search(call_pattern, i, 1, FALSE)
         IN IF ~match.ok THEN <<"next">>
            ELSE LET func == Group(i, match, 1)
                     args_match == Search(args_pattern, i, 1, FALSE)
                 IN IF StartsWith(func, Kw.llvm_dot) THEN None
                    ELSE IF args_match.ok
                    THEN func \o <<"(">> \o Conv_simplify_args(Group(i, args_match, 1))
                         \o <<")", ";">>
                    ELSE func \o <<"(", ")", ";">>

RECURSIVE ConvBinaryRule(_, _)
\* the loops `for op, symbol in [...]` (lines 195-210)
ConvBinaryRule(i, ops) ==
    IF Len(ops) = 0 THEN <<"next">>
    ELSE LET op == Head(ops)[1]
             symbol == Head(ops)[2]
             match == Search(binary_pattern(op), i, 1, FALSE)
         IN IF Contains(i, op) /\ match.ok
            THEN Out.comment \o Conv_simplify_value(Group(i, match, 1))
                 \o <<" ">> \o symbol \o <<" ">> \o Conv_simplify_value(Group(i, match, 2))
            ELSE ConvBinaryRule(i, Tail(ops))

ArithOps == << <<Kw.add, <<"+">> >>, <<Kw.sub, <<"-">> >>, <<Kw.mul, <<"*">> >>,
               <<Kw.udiv, <<"/">> >>, <<Kw.sdiv, <<"/">> >> >>
CmpOps == << <<Kw.icmp_eq, <<"=", "=">> >>, <<Kw.icmp_ne, <<"!", "=">> >>,
             <<Kw.icmp_ult, <<"<">> >>, <<Kw.icmp_ugt, <<">">> >> >>

\* the branch, memory and local-allocation rules of IRToCConverter (lines 212-224)
ConvTailRules(i) ==
    IF Contains(i, Kw.br) THEN Out.branch
    ELSE IF Contains(i, Kw.load) \/ Contains(i, Kw.store) THEN Out.memory_operation
    ELSE IF Contains(i, Kw.alloca) THEN Out.local_variable
    ELSE None

\* the order in which IRToCConverter._convert_instruction tries its rules
ConvRules(i) ==
    <<ConvRetRule(i), ConvCallRule(i), ConvBinaryRule(i, ArithOps),
      ConvBinaryRule(i, CmpOps), ConvTailRules(i)>>

\* IRToCConverter._convert_instruction
Conv_convert_instruction(raw) == FirstResult(ConvRules(StripAssign(raw)))


----------------------------------------------------------------------------
(* The listings the pipeline is run on.                                    *)

MaxLines == 3      \* lines of a function body
MaxFuncs == 2      \* define headers of a listing
MaxMarkers == 2    \* marker words of a listing
MaxDecls == 2      \* global declarations of a listing
MaxParses == 2     \* calls of parse() on one parser object

RECURSIVE Concat(_)
\* the concatenation of a sequence of texts
Concat(ts) == IF Len(ts) = 0 THEN <<>> ELSE Head(ts) \o Concat(Tail(ts))

\* all sequences of at most n elements of S
SeqsUpTo(S, n) == UNION {[1..k -> S] : k \in 0..n}

\* the physical lines of a function body: a block label, an indented
\* instruction, an instruction with a trailing comment, a comment-only line,
\* a blank line, a line that lowers to nothing, another block label
Line ==
    [ label         |-> <<"1",":","\n">>,
      instr         |-> <<" "," ","r","e","t"," ","v","o","i","d","\n">>,
      instr_comment |-> <<"r","e","t"," ","v","o","i","d"," ",";"," ","x","\n">>,
      comment       |-> <<";"," ","x","\n">>,
      blank         |-> <<"\n">>,
      elided        |-> <<"u","n","r","e","a","c","h","a","b","l","e"," ",";"," ","x","\n">>,
      block         |-> <<"7",":","\n">> ]

\* a function body of five block labels, and one of an instruction and four
FiveLabels == Concat(<<Line.label, Line.label, Line.label, Line.label, Line.label>>)
FourLabels == Concat(<<Line.instr_comment, Line.label, Line.label, Line.label, Line.label>>)

\* function names
Name ==
    [ f      |-> <<"f">>,
      g      |-> <<"g">>,
      v      |-> <<"_","_","v">>,
      llvm   |-> <<"l","l","v","m",".","f">>,
      foo    |-> <<"f","o","o">>,
      memcpy |-> <<"l","l","v","m",".","m","e","m","c","p","y">> ]

\* the pieces of a function definition around its body, and a second header
Header ==
    [ open       |-> <<"d","e","f","i","n","e"," ","i","3","2"," ","@">>,
      close      |-> <<"(","i","3","2"," ","%","a",")"," ","{","\n">>,
      body_close |-> <<"}","\n">>,
      g          |-> <<"d","e","f","i","n","e"," ","i","8"," ","@","g","(",")","{">> ]

\* define i32 @<name>(i32 %a) {\n<body>}\n
FuncText(name, b) == Header.open \o name \o Header.close \o b \o Header.body_close

\* listings of one function named f, for every body of at most MaxLines lines
BodyListings ==
    { FuncText(Name.f, Concat(ls)) :
        ls \in SeqsUpTo({Line.label, Line.instr, Line.instr_comment, Line.comment,
                         Line.blank}, MaxLines) }

\* listings of at most MaxFuncs functions, named freely
NameListings ==
    { Concat([i \in DOMAIN fs |-> FuncText(fs[i][1], fs[i][2])]) :
        fs \in SeqsUpTo({Name.f, Name.g, Name.v, Name.llvm} \X {FourLabels, FiveLabels},
                         MaxFuncs) }

\* the words the marker signatures are made of, each followed by a blank,
\* and a line break
Words ==
    [ deadbeef      |-> <<"0","x","D","E","A","D","B","E","E","F"," ">>,
      cafebabe      |-> <<"0","x","C","A","F","E","B","A","B","E"," ">>,
      obf_key       |-> <<"@","_","_","o","b","f","_","k","e","y"," ">>,
      opaque        |-> <<"O","p","a","q","u","e"," ">>,
      fake          |-> <<"f","a","k","e"," ">>,
      dummy         |-> <<"d","u","m","m","y"," ">>,
      loop          |-> <<"l","o","o","p"," ">>,
      newline       |-> <<"\n">>,
      vm            |-> <<"@","_","_","v","m","_"," ">>,
      flatten       |-> <<"f","l","a","t","t","e","n"," ">>,
      dummy_nl_loop |-> <<"d","u","m","m","y","\n","l","o","o","p"," ">> ]

\* listings of at most MaxMarkers marker words
MarkerListings == {Concat(ws) : ws \in SeqsUpTo({Words[k] : k \in DOMAIN Words}, MaxMarkers)}

\* global and string declarations
Decl ==
    [ global    |-> <<"@","_","_","o","b","f","_","k","e","y","1"," ","="," ","g","l","o","b","a","l"," ","i","8"," ","7","\n">>,
      string    |-> <<"@",".","s"," ","="," ","p","r","i","v","a","t","e"," ","c","o","n","s","t","a","n","t"," ","[","3"," ","x"," ","i","8","]"," ","c","\"","h","i","\\","0","0","\"","\n">>,
      badescape |-> <<"@","k"," ","="," ","i","n","t","e","r","n","a","l"," ","c","o","n","s","t","a","n","t"," ","[","2"," ","x"," ","i","8","]"," ","c","\"","a","\\","\"","\n">>,
      empty     |-> <<"@","e"," ","="," ","c","o","n","s","t","a","n","t"," ","[","0"," ","x"," ","i","8","]"," ","c","\"","\"","\n">> ]

\* listings of at most MaxDecls declarations and a function
DeclListings ==
    {Concat(ds) \o FuncText(Name.g, Line.instr) : ds \in SeqsUpTo({Decl[k] : k \in DOMAIN Decl}, MaxDecls)}

Listings == BodyListings \cup NameListings \cup MarkerListings \cup DeclListings

----------------------------------------------------------------------------
(* The report tool's parser and the converter's extraction on one listing. *)

NoMetrics == [total_functions |-> -1]
Idle == <<>>

Init ==
    /\ content \in Listings
    /\ functions = <<>>
    /\ globals = <<>>
    /\ strings = <<>>
    /\ obfuscation_patterns = <<>>
    /\ metrics = NoMetrics
    /\ parses = 0
    /\ conv_functions = <<>>
    /\ instr = Idle /\ lowered = Idle
    /\ instructions = Idle /\ body = Idle /\ emitted = Idle
    /\ start = 0 /\ end = 0 /\ depth = 0
    /\ pc = "pipeline"

\* LLVMIRParser.parse
Parse ==
    /\ pc = "pipeline"
    /\ parses < MaxParses
    /\ globals' = Parser_extract_globals(content)
    /\ strings' = Parser_extract_strings(content)
    /\ functions' = Parser_extract_functions(content, functions)
    /\ obfuscation_patterns' =
           Parser_detect_obfuscation_patterns(content, obfuscation_patterns)
    /\ parses' = parses + 1
    /\ UNCHANGED <<content, metrics, conv_functions, instr, lowered, instructions,
                   body, emitted, start, end, depth, pc>>

\* LLVMIRParser.get_metrics
GetMetrics ==
    /\ pc = "pipeline"
    /\ metrics' = Parser_get_metrics(functions, obfuscation_patterns)
    /\ UNCHANGED <<content, functions, globals, strings, obfuscation_patterns,
                   parses, conv_functions, instr, lowered, instructions, body,
                   emitted, start, end, depth, pc>>

Next == Parse \/ GetMetrics

Spec == Init /\ [][Next]_vars

----------------------------------------------------------------------------
(* The standalone converter's extraction on one listing.                   *)

InitConv ==
    /\ content \in NameListings \cup DeclListings
    /\ functions = <<>>
    /\ globals = <<>>
    /\ strings = <<>>
    /\ obfuscation_patterns = <<>>
    /\ metrics = NoMetrics
    /\ parses = 0
    /\ conv_functions = <<>>
    /\ instr = Idle /\ lowered = Idle
    /\ instructions = Idle /\ body = Idle /\ emitted = Idle
    /\ start = 0 /\ end = 0 /\ depth = 0
    /\ pc = "convert"

\* IRToCConverter._extract_functions
ConvExtract ==
    /\ pc = "convert"
    /\ conv_functions' = Conv_extract_functions(content, conv_functions)
    /\ pc' = "extracted"
    /\ UNCHANGED <<content, functions, globals, strings, obfuscation_patterns,
                   metrics, parses, instr, lowered, instructions, body, emitted,
                   start, end, depth>>

NextConv == ConvExtract

SpecConv == InitConv /\ [][NextConv]_vars

----------------------------------------------------------------------------
(* One instruction line lowered by each of the two tools.                  *)

MaxCallArgs == 6   \* arguments of a call instruction

\* the k-th argument of the call instructions: i32 1, %a, @g, i32 4, ...
ArgAt(k) ==
    IF k = 2 THEN <<"%", "a">>
    ELSE IF k = 3 THEN <<"@", "g">>
    ELSE <<"i", "3", "2", " ", ToString(k % 10)>>

\* the parts of a call instruction line
Piece ==
    [ void    |-> <<"v","o","i","d">>,
      varargs |-> <<"i","3","2"," ","(","p","t","r",","," ",".",".",".",")">>,
      assign  |-> <<"%","3"," ","="," ">>,
      comment |-> <<" ",";"," ","r","e","t"," ","x">> ]

\* [%3 = ]call <type> @<callee>(<k arguments>)[ ; ret x]
CallInstrs ==
    { pre \o Kw.call \o <<" ">> \o ty \o <<" ", "@">> \o callee \o <<"(">>
        \o Join([j \in 1..k |-> ArgAt(j)], <<",", " ">>) \o <<")">> \o post :
      pre \in {<<>>, Piece.assign}, ty \in {Piece.void, Piece.varargs},
      callee \in {Name.foo, Name.memcpy}, k \in 0..MaxCallArgs,
      post \in {<<>>, Piece.comment} }

\* return, arithmetic, comparison, branch, memory, allocation and other lines
PlainInstrs ==
    { <<"r","e","t"," ","v","o","i","d">>,
      <<"r","e","t"," ","i","3","2"," ","0">>,
      <<"r","e","t"," ","0">>,
      <<"r","e","t"," ","%","x">>,
      <<"r","e","t"," ","@","g">>,
      <<"r","e","t"," ","i","3","2"," ","u","n","d","e","f">>,
      <<"r","e","t"," ","u","n","d","e","f">>,
      <<"r","e","t">>,
      <<"a","d","d"," ","i","3","2"," ","%","1",","," ","%","2">>,
      <<"s","u","b"," ","i","3","2"," ","%","1",","," ","7">>,
      <<"m","u","l"," ","i","3","2"," ","%","3",","," ","%","3">>,
      <<"u","d","i","v"," ","i","3","2"," ","%","3",","," ","2">>,
      <<"s","d","i","v"," ","i","3","2"," ","%","3",","," ","2">>,
      <<"i","c","m","p"," ","e","q"," ","i","3","2"," ","%","4",","," ","0">>,
      <<"i","c","m","p"," ","n","e"," ","i","3","2"," ","%","4",","," ","0">>,
      <<"i","c","m","p"," ","u","l","t"," ","i","3","2"," ","%","4",","," ","9">>,
      <<"i","c","m","p"," ","u","g","t"," ","i","3","2"," ","%","4",","," ","9">>,
      <<"i","c","m","p"," ","s","l","t"," ","i","3","2"," ","%","4",","," ","9">>,
      <<"b","r"," ","l","a","b","e","l"," ","%","7">>,
      <<"s","t","o","r","e"," ","i","3","2"," ","0",","," ","p","t","r"," ","%","2">>,
      <<"l","o","a","d"," ","i","3","2",","," ","p","t","r"," ","%","2">>,
      <<"a","l","l","o","c","a"," ","i","3","2">>,
      <<"u","n","r","e","a","c","h","a","b","l","e">> }

\* instructions of LLVMIRParser that span two physical lines
MergedInstrs ==
    { <<"c","a","l","l"," ","v","o","i","d"," ","@","f","o","o","(",")","\n"," "," ","r","e","t"," ","v","o","i","d">>,
      <<"a","d","d"," ","i","3","2"," ","1",","," ","2","\n"," "," ","r","e","t"," ","i","3","2"," ","%","1">>,
      <<"r","e","t","\n"," "," ","b","r"," ","l","a","b","e","l"," ","%","7">> }

InstrLines ==
    CallInstrs \cup MergedInstrs
    \cup {pre \o i : pre \in {<<>>, Piece.assign}, i \in PlainInstrs}

NotRun == <<"NotRun">>

InitLower ==
    /\ instr \in InstrLines
    /\ lowered = [report |-> NotRun, standalone |-> NotRun]
    /\ content = <<>>
    /\ functions = <<>>
    /\ globals = <<>>
    /\ strings = <<>>
    /\ obfuscation_patterns = <<>>
    /\ metrics = NoMetrics
    /\ parses = 0
    /\ conv_functions = <<>>
    /\ instructions = Idle /\ body = Idle /\ emitted = Idle
    /\ start = 0 /\ end = 0 /\ depth = 0
    /\ pc = "lower"

\* CDecompiler._convert_instruction on an element of FunctionInfo.instructions,
\* which holds no ';' (decompile_analysis.py lines 109-110)
LowerReport ==
    /\ pc = "lower"
    /\ lowered.report = NotRun
    /\ \A k \in 1..Len(instr) : instr[k] # ";"
    /\ lowered' = [lowered EXCEPT !.report = Report_convert_instruction(instr)]
    /\ UNCHANGED <<content, functions, globals, strings, obfuscation_patterns,
                   metrics, parses, conv_functions, instr, instructions, body,
                   emitted, start, end, depth, pc>>

\* IRToCConverter._convert_instruction on a stripped physical line of a body,
\* which holds no line break (ir_to_c.py lines 154-160)
LowerStandalone ==
    /\ pc = "lower"
    /\ lowered.standalone = NotRun
    /\ \A k \in 1..Len(instr) : instr[k] # "\n"
    /\ lowered' = [lowered EXCEPT !.standalone = Conv_convert_instruction(instr)]
    /\ UNCHANGED <<content, functions, globals, strings, obfuscation_patterns,
                   metrics, parses, conv_functions, instr, instructions, body,
                   emitted, start, end, depth, pc>>

NextLower == LowerReport \/ LowerStandalone

SpecLower == InitLower /\ [][NextLower]_vars


----------------------------------------------------------------------------
(* Lowering of a whole function body: CDecompiler.decompile_function       *)
(* (tools/decompile_analysis.py) and IRToCConverter._decompile_body        *)
(* (tools/ir_to_c.py).                                                     *)

ReportCap == 20       \* func_info.instructions[:20]
StandaloneCap == 30   \* lines[:30]

RECURSIVE Decimal(_)
\* str(n) for n >= 0
Decimal(n) ==
    IF n < 10 THEN <<ToString(n)>> ELSE Decimal(n \div 10) \o <<ToString(n % 10)>>

Indent == <<" ", " ", " ", " ">>

\* the type_map of CDecompiler._convert_type, in its iteration order
ReportTypeMap ==
    << <<<<"i","3","2">>, <<"i","n","t">>>>, <<<<"i","6","4">>, <<"l","o","n","g">>>>,
       <<<<"i","8">>, <<"c","h","a","r">>>>, <<<<"v","o","i","d">>, <<"v","o","i","d">>>>,
       <<<<"f","l","o","a","t">>, <<"f","l","o","a","t">>>>, <<<<"d","o","u","b","l","e">>, <<"d","o","u","b","l","e">>>> >>

\* CDecompiler._convert_type
Report_convert_type(llvm_type) ==
    LET hits == {k \in 1..Len(ReportTypeMap) : Contains(llvm_type, ReportTypeMap[k][1])}
    IN IF hits # {} THEN ReportTypeMap[Least(hits)][2]
       ELSE IF Contains(llvm_type, Kw.ptr) \/ Contains(llvm_type, <<"*">>)
            THEN <<"v","o","i","d","*">>
       ELSE Out.int

\* f"int {p}" if not p.startswith('%') else f"int {p[1:]}"
ReportParam(p) ==
    Out.int \o <<" ">> \o (IF StartsWith(p, <<"%">>) THEN Tail(p) ELSE p)

\* lines.append(f"{prefix}{c_instr}") under `if c_instr:`
AppendIf(prefix, c_instr) ==
    IF c_instr # None /\ Len(c_instr) > 0 THEN <<prefix \o c_instr>> ELSE <<>>

\* seq[:n]
Take(seq, n) == SubSeq(seq, 1, IF Len(seq) < n THEN Len(seq) ELSE n)

RECURSIVE ReportLines(_)
\* the loop over func_info.instructions[:20]: a line for every truthy result
ReportLines(instrs) ==
    IF Len(instrs) = 0 THEN <<>>
    ELSE AppendIf(Indent, Report_convert_instruction(Head(instrs)))
         \o ReportLines(Tail(instrs))

\* the "more instructions" line, added when there are more than 20 instructions
ReportSummary(instrs) ==
    IF Len(instrs) > ReportCap
    THEN <<Indent \o Out.more_open \o Decimal(Len(instrs) - ReportCap) \o Out.more_close>>
    ELSE <<>>

\* CDecompiler.decompile_function: the lines that are joined with '\n'
Report_decompile_function(func_info) ==
    << Report_convert_type(func_info.return_type) \o <<" ">> \o func_info.name
            \o <<"(">>
            \o Join([k \in 1..Len(func_info.params) |-> ReportParam(func_info.params[k])],
                    <<",", " ">>)
            \o <<")", " ", "{">> >>
    \o ReportLines(Take(func_info.instructions, ReportCap))
    \o ReportSummary(func_info.instructions)
    \o << <<"}">> >>

\* r'(\d+):\s*\n'
block_pattern ==
    <<Mark("s1"), Plus(Digit), Mark("e1"), Lit(<<":">>), Star(WS), Lit(<<"\n">>)>>

RECURSIVE SplitBlocks(_, _, _)
\* re.split(r'(\d+):\s*\n', body): the text between the matches, each match
\* replaced by its group
SplitBlocks(text, ms, pos) ==
    IF Len(ms) = 0 THEN <<Slice(text, pos, Len(text) + 1)>>
    ELSE <<Slice(text, pos, Head(ms).start), Group(text, Head(ms), 1)>>
         \o SplitBlocks(text, Tail(ms), Head(ms).end)

\* block.strip().isdigit()
IsBlockLabel(block) ==
    Len(Strip(block)) > 0 /\ \A k \in 1..Len(Strip(block)) : Strip(block)[k] \in Digit

\* one stripped line of a block
ConvLine(i) ==
    IF Len(i) = 0 \/ StartsWith(i, <<";">>) THEN <<>>
    ELSE AppendIf(<<>>, Conv_convert_instruction(i))

RECURSIVE ConvBlockLines(_)
\* the loop over block.split('\n'): blank and comment lines are skipped
ConvBlockLines(ls) ==
    IF Len(ls) = 0 THEN <<>>
    ELSE ConvLine(Strip(Head(ls))) \o ConvBlockLines(Tail(ls))

RECURSIVE ConvBodyLines(_)
\* the loop over the blocks: `lines` before the cut
ConvBodyLines(blocks) ==
    IF Len(blocks) = 0 THEN <<>>
    ELSE (IF IsBlockLabel(Head(blocks))
          THEN <<Out.basic_block \o Head(blocks) \o <<":">> >>
          ELSE ConvBlockLines(Split(Head(blocks), "\n")))
         \o ConvBodyLines(Tail(blocks))

\* IRToCConverter._decompile_body
Conv_decompile_body(func_body) ==
    Take(ConvBodyLines(SplitBlocks(func_body,
                                   FindAll(block_pattern, func_body, 1, FALSE), 1)),
         StandaloneCap)

----------------------------------------------------------------------------
(* One function body lowered by each of the two tools.                     *)

MaxKept == 32     \* lines of a body that lower to a statement
MaxElided == 1    \* lines of a body that lower to nothing
MaxLabels == 1    \* block labels of a body


\* labels, then elided lines, then lowered lines
CapBodies ==
    { Concat([k \in 1..l |-> Line.block]) \o Concat([k \in 1..e |-> Line.elided])
        \o Concat([k \in 1..n |-> Line.instr_comment]) :
      l \in 0..MaxLabels, e \in 0..MaxElided, n \in 0..MaxKept }

InitTrunc ==
    /\ body \in CapBodies
    /\ instructions = Idle
    /\ emitted = [report |-> NotRun, standalone |-> NotRun]
    /\ content = <<>>
    /\ functions = <<>>
    /\ globals = <<>>
    /\ strings = <<>>
    /\ obfuscation_patterns = <<>>
    /\ metrics = NoMetrics
    /\ parses = 0
    /\ conv_functions = <<>>
    /\ instr = Idle /\ lowered = Idle
    /\ start = 0 /\ end = 0 /\ depth = 0
    /\ pc = "decompile"

\* the report tool on a function i32 f(i32 %a) with this body: the parser's
\* instruction list, then CDecompiler.decompile_function
DecompileReport ==
    /\ pc = "decompile"
    /\ emitted.report = NotRun
    /\ instructions' = ExtractInstructions(body)
    /\ emitted' = [emitted EXCEPT !.report =
                      Report_decompile_function(
                          [ name |-> Name.f, params |-> << <<"%", "a">> >>,
                            return_type |-> <<"i", "3", "2">>,
                            instructions |-> instructions' ])]
    /\ UNCHANGED <<content, functions, globals, strings, obfuscation_patterns,
                   metrics, parses, conv_functions, instr, lowered, body,
                   start, end, depth, pc>>

\* IRToCConverter._decompile_body on this body
DecompileStandalone ==
    /\ pc = "decompile"
    /\ emitted.standalone = NotRun
    /\ emitted' = [emitted EXCEPT !.standalone = Conv_decompile_body(body)]
    /\ UNCHANGED <<content, functions, globals, strings, obfuscation_patterns,
                   metrics, parses, conv_functions, instr, lowered, instructions,
                   body, start, end, depth, pc>>

NextTrunc == DecompileReport \/ DecompileStandalone

SpecTrunc == InitTrunc /\ [][NextTrunc]_vars

----------------------------------------------------------------------------
(* The brace-depth scan of _extract_functions, one loop iteration at a     *)
(* time, in the report tool's parser and in the standalone converter.      *)

MaxTail == 3   \* pieces of text after the first define header


\* define i32 @<name>(i32 %a) {\n, then braces, other text and more headers
ScanTexts ==
    { Header.open \o name \o Header.close \o Concat(tail) :
      name \in {Name.f, Name.v},
      tail \in SeqsUpTo({<<"{">>, <<"}">>, <<"x">>, Header.g}, MaxTail) }

InitScan ==
    /\ content \in ScanTexts
    /\ pc \in {"report.match", "standalone.match"}
    /\ start = 0 /\ end = 0 /\ depth = 0
    /\ body = Idle
    /\ functions = <<>>
    /\ globals = <<>>
    /\ strings = <<>>
    /\ obfuscation_patterns = <<>>
    /\ metrics = NoMetrics
    /\ parses = 0
    /\ conv_functions = <<>>
    /\ instr = Idle /\ lowered = Idle
    /\ instructions = Idle /\ emitted = Idle

\* the next match of re.finditer: the search resumes where the last match ended
NextDefine == Search(func_pattern, content, start + 1, FALSE)

\* LLVMIRParser._extract_functions, lines 84-93: the next match, if any, and
\* start_pos = match.end(); brace_count = 1; end_pos = start_pos
ScanBeginReport ==
    /\ pc = "report.match"
    /\ IF NextDefine.ok
       THEN /\ start' = NextDefine.end - 1
            /\ end' = NextDefine.end - 1
            /\ depth' = 1
            /\ pc' = "report.scan"
       ELSE /\ pc' = "done"
            /\ UNCHANGED <<start, end, depth>>
    /\ UNCHANGED <<content, functions, globals, strings, obfuscation_patterns,
                   metrics, parses, conv_functions, instr, lowered, instructions,
                   body, emitted>>

\* IRToCConverter._extract_functions, lines 55-67: the same, but a match whose
\* name is internal is skipped
ScanBeginStandalone ==
    /\ pc = "standalone.match"
    /\ IF ~NextDefine.ok
       THEN /\ pc' = "done"
            /\ UNCHANGED <<start, end, depth>>
       ELSE IF IsInternalName(Group(content, NextDefine, 2))
       THEN /\ start' = NextDefine.end - 1
            /\ UNCHANGED <<end, depth, pc>>
       ELSE /\ start' = NextDefine.end - 1
            /\ end' = NextDefine.end - 1
            /\ depth' = 1
            /\ pc' = "standalone.scan"
    /\ UNCHANGED <<content, functions, globals, strings, obfuscation_patterns,
                   metrics, parses, conv_functions, instr, lowered, instructions,
                   body, emitted>>

\* one iteration of the while loop (decompile_analysis.py lines 95-100,
\* ir_to_c.py lines 68-73)
ScanStep ==
    /\ pc \in {"report.scan", "standalone.scan"}
    /\ ScanContinues(content, end, depth)
    /\ depth' = ScanDepth(content, end, depth)
    /\ end' = end + 1
    /\ UNCHANGED <<content, functions, globals, strings, obfuscation_patterns,
                   metrics, parses, conv_functions, instr, lowered, instructions,
                   body, emitted, start, pc>>

\* the loop exits: func_body = content[start_pos:end_pos-1], and the for loop
\* goes on to the next match
ScanExit ==
    /\ pc \in {"report.scan", "standalone.scan"}
    /\ ~ScanContinues(content, end, depth)
    /\ body' = SubSeq(content, start + 1, end - 1)
    /\ pc' = IF pc = "report.scan" THEN "report.match" ELSE "standalone.match"
    /\ UNCHANGED <<content, functions, globals, strings, obfuscation_patterns,
                   metrics, parses, conv_functions, instr, lowered, instructions,
                   emitted, start, end, depth>>

NextScan == ScanBeginReport \/ ScanBeginStandalone \/ ScanStep \/ ScanExit

SpecScan == InitScan /\ [][NextScan]_vars

\* the interpreter keeps executing a loop it has entered
SpecScanFair == SpecScan /\ WF_vars(ScanStep) /\ WF_vars(ScanExit)

----------------------------------------------------------------------------
(* Properties of the extraction and of the metrics.                        *)

\* the listing holds one function: one opening and one closing brace
OneFunction(text) ==
    /\ Cardinality({p \in 1..Len(text) : text[p] = "{"}) = 1
    /\ Cardinality({p \in 1..Len(text) : text[p] = "}"}) = 1

\* the text between the braces of a listing of one function
BodyBetween(text) ==
    SubSeq(text, (CHOOSE p \in 1..Len(text) : text[p] = "{") + 1,
                 (CHOOSE p \in 1..Len(text) : text[p] = "}") - 1)

\* a block-label line: a bare integer followed by a colon
IsLabelLine(l) ==
    LET t == Strip(l)
    IN /\ Len(t) >= 2
       /\ t[Len(t)] = ":"
       /\ \A i \in 1..(Len(t) - 1) : t[i] \in Digit

\* a non-blank, non-label, non-comment line
IsInstructionLine(l) ==
    LET t == Strip(l)
    IN Len(t) > 0 /\ t[1] # ";" /\ ~IsLabelLine(l)

CountLines(b, P(_)) ==
    LET ls == Split(b, "\n") IN Cardinality({i \in DOMAIN ls : P(ls[i])})

\* C1: a function extracted from a well-formed body with N instruction lines
\* and B block-label lines has len(instructions) = N, basic_blocks = B and
\* complexity = N + 2*B.
C1_ComplexityIsNPlus2B ==
    (parses >= 1 /\ OneFunction(content)) =>
        \A n \in DOMAIN functions :
            LET N == CountLines(BodyBetween(content), IsInstructionLine)
                B == CountLines(BodyBetween(content), IsLabelLine)
            IN /\ Len(functions[n].instructions) = N
               /\ functions[n].basic_blocks = B
               /\ functions[n].complexity = N + 2 * B

\* a name with the reserved internal-use prefix or in the intrinsic namespace
IsReservedName(n) ==
    \/ (Len(n) >= 2 /\ n[1] = "_" /\ n[2] = "_")
    \/ (Len(n) >= 5 /\ SubSeq(n, 1, 5) = <<"l", "l", "v", "m", ".">>)

\* C2: a define header whose name begins with "__" or "llvm." is not in the
\* function collection, so it contributes to no count of get_metrics.
C2_ReservedNamesExcluded ==
    \A n \in DOMAIN functions : ~IsReservedName(n)

\* C5: get_metrics counts a function as obfuscated iff its complexity is
\* strictly greater than 10 (10 is not counted, 11 is), and never more
\* functions than the collection holds.
C5_ObfuscatedIffAbove10 ==
    [][metrics' # metrics =>
         /\ metrics'.obfuscated_functions =
                Cardinality({n \in DOMAIN functions' : functions'[n].complexity >= 11})
         /\ metrics'.obfuscated_functions <= metrics'.total_functions]_vars

\* a function of complexity 10 and one of complexity 11 were reported, and
\* one of the two was counted
C5_Witness ==
    /\ metrics # NoMetrics
    /\ parses >= 1
    /\ \E a, b \in DOMAIN functions :
           functions[a].complexity = 10 /\ functions[b].complexity = 11
    /\ metrics.total_functions = 2
    /\ metrics.obfuscated_functions = 1

\* the positions where the word w occurs in the text
Occurrences(w, text, ic) == {p \in 1..Len(text) : LitAt(w, text, p, ic)}

\* the occurrences of a signature made of words: <<start, end>> of each
WordSpans(ws, text, ic) ==
    UNION {{<<p, p + Len(w)>> : p \in Occurrences(w, text, ic)} : w \in ws}

\* the occurrences of a phrase "<first> ... <last>" within one line: from an
\* occurrence of the first word to the last occurrence of the last word that
\* follows it on the same line
PhraseSpans(first, last, text) ==
    LET ends(p) == {q \in Occurrences(last, text, TRUE) :
                       /\ q >= p + Len(first)
                       /\ \A i \in p..(q - 1) : text[i] # "\n"}
    IN {<<p, (CHOOSE q \in ends(p) : \A r \in ends(p) : r <= q) + Len(last)>> :
           p \in {x \in Occurrences(first, text, TRUE) : ends(x) # {}}}

\* the occurrences of the signature of each marker kind
SignatureSpans(key, text) ==
    CASE key = "string_encryption" -> WordSpans({Marker.obf_key}, text, FALSE)
      [] key = "opaque_predicates" -> WordSpans({Marker.opaque, Marker.obfuscated}, text, TRUE)
      [] key = "bogus_code" -> WordSpans({Marker.DEADBEEF, Marker.CAFEBABE}, text, FALSE)
      [] key = "fake_loops" ->
             WordSpans({Marker.fake}, text, TRUE) \cup PhraseSpans(Marker.dummy, Marker.loop, text)
      [] key = "virtualization" ->
             WordSpans({Marker.obf_decrypt, Marker.vm, Marker.bytecode}, text, TRUE)
      [] key = "control_flow" ->
             WordSpans({Marker.flatten}, text, TRUE) \cup PhraseSpans(Marker.switch, Marker.dispatch, text)

RECURSIVE CountNonOverlapping(_, _)
\* how many occurrences a reader counts from position pos on, taking the
\* leftmost one and going on after its end
CountNonOverlapping(spans, pos) ==
    LET later == {sp \in spans : sp[1] >= pos}
    IN IF later = {} THEN 0
       ELSE LET sp == CHOOSE x \in later : \A y \in later : x[1] <= y[1]
            IN 1 + CountNonOverlapping(spans, sp[2])

MarkerCount(key, text) == CountNonOverlapping(SignatureSpans(key, text), 1)

\* C6: after _detect_obfuscation_patterns, each of the six counts of
\* get_metrics is the number of non-overlapping occurrences of the kind's
\* signature in the listing, 0 when there is none; with no 0xCAFEBABE,
\* bogus_code is the number of 0xDEADBEEF, and string_encryption is the
\* number of @__obf_key.
C6_MarkerCounts ==
    [][(metrics' # metrics /\ parses >= 1) =>
         LET m == metrics'
         IN /\ m.string_encryptions = MarkerCount("string_encryption", content)
            /\ m.opaque_predicates = MarkerCount("opaque_predicates", content)
            /\ m.bogus_code_blocks = MarkerCount("bogus_code", content)
            /\ m.fake_loops = MarkerCount("fake_loops", content)
            /\ m.virtualized_functions = MarkerCount("virtualization", content)
            /\ m.control_flow_obfuscations = MarkerCount("control_flow", content)
            /\ m.string_encryptions =
                   Cardinality(Occurrences(Marker.obf_key, content, FALSE))
            /\ (Occurrences(Marker.CAFEBABE, content, FALSE) = {} =>
                   m.bogus_code_blocks =
                       Cardinality(Occurrences(Marker.DEADBEEF, content, FALSE)))]_vars

\* a listing with 0xDEADBEEF twice and no other marker was reported
C6_Witness ==
    /\ metrics # NoMetrics
    /\ parses >= 1
    /\ Cardinality(Occurrences(Marker.DEADBEEF, content, FALSE)) = 2
    /\ metrics.bogus_code_blocks = 2
    /\ metrics.string_encryptions = 0
    /\ metrics.fake_loops = 0

\* C7: in every ObfuscationMetrics, obfuscated_instructions equals
\* total_instructions, which is the sum of len(instructions) over the
\* collection, and total_functions is the size of the collection.
C7_InstructionTotals ==
    [][metrics' # metrics =>
         /\ metrics'.obfuscated_instructions = metrics'.total_instructions
         /\ metrics'.total_instructions = SumInstructions(functions', DOMAIN functions')
         /\ metrics'.total_functions = Cardinality(DOMAIN functions')]_vars

\* two functions with instructions, one of them below the threshold, were
\* reported
C7_Witness ==
    /\ metrics # NoMetrics
    /\ metrics.total_functions = 2
    /\ metrics.total_instructions >= 2
    /\ metrics.obfuscated_functions = 1
    /\ metrics.obfuscated_instructions = metrics.total_instructions

\* C8: a second parse() on the same parser object leaves functions, globals,
\* strings and marker counts, hence the metrics, as the first left them.
C8_ParseIdempotent ==
    [][(parses >= 1 /\ parses' = parses + 1) =>
         /\ functions' = functions
         /\ globals' = globals
         /\ strings' = strings
         /\ obfuscation_patterns' = obfuscation_patterns]_vars

\* parse() ran twice on a listing with a function, a global, a string and a
\* marker
C8_Witness ==
    /\ parses = 2
    /\ DOMAIN functions # {}
    /\ Len(globals) > 0
    /\ Len(strings) > 0
    /\ DOMAIN obfuscation_patterns # {}

----------------------------------------------------------------------------
(* Properties of the lowering of one instruction.                          *)

\* where the instruction's call keyword stands, 0 when it is no call
CallAt(i) ==
    LET ps == {p \in 1..Len(i) :
                  /\ LitAt(Kw.call \o <<" ">>, i, p, FALSE)
                  /\ (p = 1 \/ i[p - 1] = " ")}
    IN IF ps = {} THEN 0 ELSE CHOOSE p \in ps : \A q \in ps : p <= q

\* the symbol called: the text from the first @ after the call keyword up to
\* the opening parenthesis of the argument list
CalleeOf(i) ==
    LET a == CHOOSE p \in CallAt(i)..Len(i) :
                 i[p] = "@" /\ \A q \in CallAt(i)..(p - 1) : i[q] # "@"
        z == CHOOSE p \in a..Len(i) :
                 i[p] = "(" /\ \A q \in a..(p - 1) : i[q] # "("
    IN SubSeq(i, a + 1, z - 1)

InIntrinsicNamespace(name) ==
    Len(name) >= 5 /\ SubSeq(name, 1, 5) = <<"l", "l", "v", "m", ".">>

HasComment(i) == \E k \in 1..Len(i) : i[k] = ";"
HasLineBreak(i) == \E k \in 1..Len(i) : i[k] = "\n"

\* a call-expression statement of the callee: "<callee>(" ... ";"
IsCallStatement(r, callee) ==
    /\ r # None
    /\ Len(r) > Len(callee) + 1
    /\ SubSeq(r, 1, Len(callee) + 1) = callee \o <<"(">>
    /\ r[Len(r)] = ";"

\* the lowerings computed so far
Results == {r \in {lowered.report, lowered.standalone} : r # NotRun}

\* C3: a call to a callee in the intrinsic namespace (llvm.) lowers to
\* nothing, and a call to a normal user function lowers to a call-expression
\* statement ending in ";" (stated for the call lines without a comment).
C3_IntrinsicCallsElided ==
    (pc = "lower" /\ CallAt(instr) > 0 /\ ~HasComment(instr) /\ ~HasLineBreak(instr)) =>
        \A r \in Results :
            IF InIntrinsicNamespace(CalleeOf(instr))
            THEN r = None
            ELSE IsCallStatement(r, CalleeOf(instr))

\* C10: the rules are tried in the order call, return, arithmetic, ...: a
\* line that matches the call rule with a non-intrinsic callee lowers to the
\* call-expression statement even when it also matches the return rule.
C10_CallRuleFirst ==
    (pc = "lower" /\ CallAt(instr) > 0 /\ ~InIntrinsicNamespace(CalleeOf(instr))) =>
        \A r \in Results : IsCallStatement(r, CalleeOf(instr))

----------------------------------------------------------------------------
(* Properties of the lowering of a whole body.                             *)

\* a comment whose digits spell n
IsSummaryComment(l, n) ==
    /\ StartsWith(Strip(l), <<"/", "/">>)
    /\ SelectSeq(l, LAMBDA c : c \in Digit) = Decimal(n)

\* what the claim expects of `produced` lines under a cap
CappedWithSummary(out, produced, cap) ==
    IF Len(produced) > cap
    THEN /\ Len(out) = cap + 1
         /\ SubSeq(out, 1, cap) = SubSeq(produced, 1, cap)
         /\ IsSummaryComment(out[cap + 1], Len(produced) - cap)
    ELSE out = produced

\* the lines the standalone converter would produce without its cap
StandaloneProduced ==
    ConvBodyLines(SplitBlocks(body, FindAll(block_pattern, body, 1, FALSE), 1))

\* C4: when the lowering of a body would produce more lines than the cap (20
\* in decompile_function, 30 in _decompile_body) the emitted body is the
\* first cap produced lines and one summary comment giving produced - cap;
\* otherwise all produced lines are emitted and no summary is added.
C4_CapThenOneSummary ==
    /\ (pc = "decompile" /\ emitted.report # NotRun) =>
           CappedWithSummary(SubSeq(emitted.report, 2, Len(emitted.report) - 1),
                             ReportLines(instructions), ReportCap)
    /\ (pc = "decompile" /\ emitted.standalone # NotRun) =>
           CappedWithSummary(emitted.standalone, StandaloneProduced, StandaloneCap)

----------------------------------------------------------------------------
(* Properties of the brace-depth scan.                                     *)

Scanning == pc \in {"report.scan", "standalone.scan"}

\* C9: the brace-depth scan always terminates, also on a text with no
\* matching closing brace: every iteration advances the position by exactly
\* one and runs only while the depth is positive and the position is inside
\* the text, the loop is left only when the depth is zero or the position is
\* at the end of the text, and every scan that starts is left.
C9_ScanTerminates ==
    /\ [][ /\ (Scanning /\ <<end, depth>>' # <<end, depth>>) =>
                (end' = end + 1 /\ depth > 0 /\ end < Len(content))
           /\ (Scanning /\ pc' # pc) => (depth = 0 \/ end = Len(content)) ]_vars
    /\ Scanning ~> ~Scanning

\* the scan ran off the end of a text whose braces do not balance
C9_Witness ==
    /\ pc = "done"
    /\ depth > 0
    /\ end = Len(content)
    /\ end > start

----------------------------------------------------------------------------
(* Properties of the instruction list of an extracted function.            *)

\* C11: block-label lines are counted in basic_blocks and are never
\* elements of instructions; comment-only and blank lines are never
\* elements of instructions; every element is a single physical line.
C11_InstructionsAreInstructionLines ==
    (parses >= 1 /\ OneFunction(content)) =>
        \A n \in DOMAIN functions :
            /\ functions[n].basic_blocks =
                   CountLines(BodyBetween(content), IsLabelLine)
            /\ \A k \in DOMAIN functions[n].instructions :
                   /\ ~IsLabelLine(functions[n].instructions[k])
                   /\ ~HasLineBreak(functions[n].instructions[k])
                   /\ Len(Strip(functions[n].instructions[k])) > 0
                   /\ Strip(functions[n].instructions[k])[1] # ";"

----------------------------------------------------------------------------
(* Properties of the lowering of a return instruction.                     *)

\* a return instruction on a line of its own: ret, or ret and an operand
IsReturnLine(i) ==
    /\ ~HasComment(i) /\ ~HasLineBreak(i)
    /\ \/ i = Kw.ret
       \/ Len(i) > 4 /\ SubSeq(i, 1, 4) = Kw.ret \o <<" ">>

\* the text after the ret keyword
ReturnOperand(i) == Strip(SubSeq(i, 4, Len(i)))

\* C12: a return instruction lowers to "return;" when its operand is
\* absent, is void or is undef, and to "return <operand>;" with the
\* simplified operand otherwise, in both tools.
C12_ReturnStatement ==
    (pc = "lower" /\ IsReturnLine(instr)) =>
        \A r \in Results :
            IF ReturnOperand(instr) \in {<<>>, Kw.void, Kw.undef}
            THEN r = Out.return \o <<";">>
            ELSE r = Out.return \o <<" ">> \o Conv_simplify_value(ReturnOperand(instr))
                       \o <<";">>

----------------------------------------------------------------------------
(* Properties of the extracted body.                                       *)

\* the brace depth after the characters open+1 .. q, where the character at
\* position open is the opening brace of a header
DepthAfter(text, open, q) ==
    1 + Cardinality({p \in (open + 1)..q : text[p] = "{"})
      - Cardinality({p \in (open + 1)..q : text[p] = "}"})

\* the positions after the opening brace where the depth is zero
ClosingPositions(text, open) ==
    {q \in (open + 1)..Len(text) : DepthAfter(text, open, q) = 0}

\* the matching closing brace: where the depth first returns to zero
MatchingBrace(text, open) == Least(ClosingPositions(text, open))

\* C13: when the text after a define header has a matching closing brace,
\* the extracted body is exactly the text strictly between the header's
\* opening brace and that brace: nested pairs stay inside, and nothing
\* after the matching brace is included.
C13_BodyBetweenMatchingBraces ==
    [][(Scanning /\ pc' # pc /\ ClosingPositions(content, start) # {}) =>
           body' = SubSeq(content, start + 1, MatchingBrace(content, start) - 1)]_vars

\* a body with a nested brace pair was extracted
C13_Witness ==
    /\ pc \in {"report.match", "standalone.match"}
    /\ body # Idle
    /\ \E p, q \in 1..Len(body) : p < q /\ body[p] = "{" /\ body[q] = "}"
    /\ depth = 0
    /\ content[end] = "}"

----------------------------------------------------------------------------
(* Properties of the two lowerings side by side.                           *)

\* the instruction without the "%3 = " in front of it
Operation(i) ==
    IF StartsWith(i, Piece.assign)
    THEN SubSeq(i, Len(Piece.assign) + 1, Len(i)) ELSE i

\* elided, a comment, or a statement
Kind(r) ==
    IF r = None THEN "elided"
    ELSE IF StartsWith(r, <<"/", "/">>) THEN "comment"
    ELSE "statement"

\* C14: the two tools run the same lowering: on every instruction line both
\* give the same kind of result (elided, statement or comment), the comment
\* "// branch instruction" for a branch and the comment "// local variable"
\* for a local allocation.
C14_SameLowering ==
    (pc = "lower" /\ lowered.report # NotRun /\ lowered.standalone # NotRun) =>
        /\ Kind(lowered.report) = Kind(lowered.standalone)
        /\ StartsWith(Operation(instr), Kw.br \o <<" ">>) =>
               /\ lowered.report = Out.branch_instruction
               /\ lowered.standalone = Out.branch_instruction
        /\ StartsWith(Operation(instr), Kw.alloca \o <<" ">>) =>
               /\ lowered.report = Out.local_variable
               /\ lowered.standalone = Out.local_variable

----------------------------------------------------------------------------
(* Properties of the rendering of a call's arguments.                      *)

\* the call's own argument list: the text between the parenthesis that
\* follows the callee and the parenthesis that ends the line
OwnArguments(i) ==
    LET a == CHOOSE p \in CallAt(i)..Len(i) :
                 i[p] = "@" /\ \A q \in CallAt(i)..(p - 1) : i[q] # "@"
        z == CHOOSE p \in a..Len(i) :
                 i[p] = "(" /\ \A q \in a..(p - 1) : i[q] # "("
    IN SubSeq(i, z + 1, Len(i) - 1)

\* at most 5 simplified arguments in their order, then "..." if there were more
Rendered(args) ==
    IF Len(Strip(args)) = 0 THEN <<>>
    ELSE LET as == Split(args, ",")
             shown == [k \in 1..(IF Len(as) < 5 THEN Len(as) ELSE 5) |->
                          Conv_simplify_value(Strip(as[k]))]
         IN Join(IF Len(as) > 5 THEN Append(shown, <<".", ".", ".">>) ELSE shown,
                 <<",", " ">>)

\* C15: the standalone converter lowers a call of a user function to
\* "<callee>(<arguments>);" where the arguments are the call's own argument
\* list: at most 5 of them, simplified, in their order, followed by "..."
\* iff the call had more than 5; no arguments give "<callee>();".
C15_CallArguments ==
    (/\ pc = "lower" /\ lowered.standalone # NotRun
     /\ CallAt(instr) > 0 /\ ~HasComment(instr)
     /\ ~InIntrinsicNamespace(CalleeOf(instr))) =>
        lowered.standalone =
            CalleeOf(instr) \o <<"(">> \o Rendered(OwnArguments(instr)) \o <<")", ";">>

----------------------------------------------------------------------------
(* C16: one entry per function name, built from the last header of that    *)
(* name; total_functions counts names.                                     *)

\* the define headers of a listing, in text order
Headers(text) == FindAll(func_pattern, text, 1, FALSE)

HeaderName(text, h) == Group(text, h, 2)

\* the names the define headers of a listing carry
HeaderNames(text) ==
    LET hs == Headers(text) IN {HeaderName(text, hs[k]) : k \in DOMAIN hs}

\* the last header named n
LastHeader(text, n) ==
    LET hs == Headers(text)
        last == CHOOSE k \in DOMAIN hs :
                    /\ HeaderName(text, hs[k]) = n
                    /\ \A j \in DOMAIN hs : HeaderName(text, hs[j]) = n => j <= k
    IN hs[last]

\* C16: after extraction the collection has exactly one entry for each name
\* that a define header of the listing carries, that entry is the one built
\* from the last header of the name in text order, and a metrics snapshot
\* taken then reports as total_functions the number of distinct names.
C16_LastHeaderWins ==
    [][/\ parses' >= 1 =>
              /\ DOMAIN functions' = HeaderNames(content)
              /\ \A n \in DOMAIN functions' :
                     functions'[n] = FunctionInfoOf(content, LastHeader(content, n))
       /\ (metrics' # metrics /\ parses >= 1) =>
              metrics'.total_functions = Cardinality(HeaderNames(content))]_vars

\* two headers named f with different bodies: the entry is the second one's
\* and one function is counted
C16_Witness ==
    /\ content = FuncText(Name.f, FourLabels) \o FuncText(Name.f, FiveLabels)
    /\ parses >= 1
    /\ Len(Headers(content)) = 2
    /\ FunctionInfoOf(content, Headers(content)[1])
           # FunctionInfoOf(content, Headers(content)[2])
    /\ functions[Name.f].basic_blocks = 5
    /\ metrics.total_functions = 1

----------------------------------------------------------------------------
(* C17: the bounds of the brace scan and the two ways it ends.             *)

\* C17: in every state of the body scan start <= end <= len(text) and the
\* depth is at least 0, and each iteration reads a character inside the
\* text; when the loop exits, either the depth is 0 and the character
\* before end is the closing brace matching the header's opening brace, or
\* end is len(text) with a depth above 0 and the body is
\* text[start : len(text) - 1].
C17_ScanBoundsAndExit ==
    [][/\ Scanning' => (start' <= end' /\ end' <= Len(content) /\ depth' >= 0)
       /\ (Scanning /\ end' # end) => (end + 1) \in DOMAIN content
       /\ (Scanning /\ pc' # pc) =>
              \/ /\ depth = 0
                 /\ end > start
                 /\ content[end] = "}"
                 /\ end = MatchingBrace(content, start)
              \/ /\ depth > 0
                 /\ end = Len(content)
                 /\ body' = SubSeq(content, start + 1, Len(content) - 1)]_vars

\* a scan that ran into the end of the text inside a nested brace: the body
\* taken is the rest of the text without its last character
C17_Witness ==
    /\ pc \in {"report.match", "standalone.match"}
    /\ depth > 1
    /\ end = Len(content)
    /\ end > start + 1
    /\ body = SubSeq(content, start + 1, Len(content) - 1)
    /\ Len(body) = Len(content) - start - 1

====
